---- MODULE Spec2Model ----
(***************************************************************************)
(* ServiceBusClient (azure/servicebus/_servicebus_client.py): the facade   *)
(* that builds ServiceBusSender / ServiceBusReceiver handles and owns the  *)
(* optional shared uamqp Connection.                                       *)
(*                                                                         *)
(* A Python str is a sequence of tokens (<<>> is the empty string), so     *)
(* that formatting and parsing are computed and not assumed.  Python None  *)
(* is the value None below, distinct from every str of the model.          *)
(***************************************************************************)
EXTENDS Integers, Sequences, FiniteSets, TLC

VARIABLES
    phase,                      \* "new" | "ready" | "failed" (constructor raised)
    fully_qualified_namespace,  \* self.fully_qualified_namespace
    credential,                 \* self._credential
    config,                     \* self._config
    connection,                 \* self._connection: NoConnection or an index of conns
    entity_name,                \* self._entity_name
    auth_uri,                   \* self._auth_uri
    connection_sharing,         \* self._connection_sharing
    conns,                      \* the uamqp.Connection objects created so far
    entered,                    \* number of managed blocks entered and not yet left
    ctor,                       \* history: the arguments of the constructing call
    lastOp                      \* history: the last call, what it saw and returned

clientVars == <<fully_qualified_namespace, credential, config, connection,
                entity_name, auth_uri, connection_sharing>>
vars == <<phase, fully_qualified_namespace, credential, config, connection,
          entity_name, auth_uri, connection_sharing, conns, entered, ctor, lastOp>>

-----------------------------------------------------------------------------
(* Bounds of the model *)

MaxConns == 2          \* uamqp connections created by __enter__
MaxDepth == 2          \* managed blocks nested on one client
MaxDestroyCalls == 2   \* destroy() calls on one connection

-----------------------------------------------------------------------------
(* Python values *)

None == <<"<None>">>

NoConnection == 0

Truthy(v) == v /= None /\ v /= <<>>

NoKwargs == <<>>

Get(kwargs, k, default) == IF k \in DOMAIN kwargs THEN kwargs[k] ELSE default

Without(kwargs, k) == [x \in DOMAIN kwargs \ {k} |-> kwargs[x]]

With(kwargs, k, v) == [x \in DOMAIN kwargs \cup {k} |-> IF x = k THEN v ELSE kwargs[x]]

DefaultRetryTotal == 3

-----------------------------------------------------------------------------
(* Inputs *)

Namespaces == {<<"ns1.servicebus.windows.net">>, <<"ns2.servicebus.windows.net">>}

QueueNames == {<<"q1">>, <<"q2">>}

Policies == {<<"p">>}

Keys == {<<"k">>}

TokenCredentials == {<<"TokenCredential", "t1">>}

Proxy1 == <<<<"proxy_hostname", "proxy.local">>, <<"proxy_port", "8080">>>>

\* keyword arguments of the constructor other than entity_name
ConfigKwargs ==
    { NoKwargs,
      [retry_total |-> 5],
      [logging_enable |-> TRUE, transport_type |-> "AmqpOverWebsocket",
       http_proxy |-> Proxy1, retry_total |-> 5] }

\* the entity_name keyword: not passed, or passed as "" or as a name
NotPassed == <<"<not passed>">>

EntityKw == {NotPassed, <<>>} \cup QueueNames

WithEntity(kwargs, e) == IF e = NotPassed THEN kwargs ELSE With(kwargs, "entity_name", e)

\* the EntityPath element of a connection string: absent (None), empty or a name
EntityPaths == {None, <<>>} \cup QueueNames

\* keyword arguments of get_queue_sender / get_queue_receiver
LinkKwargs == {NoKwargs, [retry_total |-> 7]}

-----------------------------------------------------------------------------
(* Connection strings *)

\* Endpoint=sb://<namespace>;SharedAccessKeyName=<policy>;SharedAccessKeyValue=<key>[;EntityPath=<name>]
ConnStr(host, policy, key, entity) ==
    <<"Endpoint", "=", "sb://">> \o host
      \o <<";", "SharedAccessKeyName", "=">> \o policy
      \o <<";", "SharedAccessKeyValue", "=">> \o key
      \o (IF entity = None THEN <<>> ELSE <<";", "EntityPath", "=">> \o entity)

\* a connection string that lacks SharedAccessKeyValue
ConnStrNoKey(host, policy) ==
    <<"Endpoint", "=", "sb://">> \o host \o <<";", "SharedAccessKeyName", "=">> \o policy

RECURSIVE Split(_, _)
\* s.split(sep): the pieces of s between the separators
Split(s, sep) ==
    IF \A i \in 1..Len(s) : s[i] /= sep
    THEN <<s>>
    ELSE LET i == CHOOSE j \in 1..Len(s) :
                      s[j] = sep /\ \A k \in 1..(j - 1) : s[k] /= sep
         IN  <<SubSeq(s, 1, i - 1)>> \o Split(SubSeq(s, i + 1, Len(s)), sep)

\* element.partition("="): <<key, value>>
Partition(element) ==
    IF \A i \in 1..Len(element) : element[i] /= "="
    THEN <<element, <<>>>>
    ELSE LET i == CHOOSE j \in 1..Len(element) :
                      element[j] = "=" /\ \A k \in 1..(j - 1) : element[k] /= "="
         IN  <<SubSeq(element, 1, i - 1), SubSeq(element, i + 1, Len(element))>>

\* the value of the last element of the string whose key is key, None when there is none
Field(conn_str, key) ==
    LET pairs == [i \in 1..Len(Split(conn_str, ";")) |-> Partition(Split(conn_str, ";")[i])]
        hits  == {i \in 1..Len(pairs) : pairs[i][1] = <<key>>}
    IN  IF hits = {} THEN None
        ELSE pairs[CHOOSE i \in hits : \A j \in hits : j <= i][2]

\* the host portion of an Endpoint value: what follows the scheme
HostPortion(endpoint) ==
    IF endpoint /= <<>> /\ Head(endpoint) = "sb://" THEN Tail(endpoint) ELSE endpoint

\* _parse_conn_str(conn_str): host, policy, key, entity, or ParseError
ParseConnStr(conn_str) ==
    LET endpoint == Field(conn_str, "Endpoint")
        policy   == Field(conn_str, "SharedAccessKeyName")
        key      == Field(conn_str, "SharedAccessKeyValue")
    IN  IF Truthy(endpoint) /\ Truthy(policy) /\ Truthy(key)
        THEN [raised |-> "none", host |-> HostPortion(endpoint), policy |-> policy,
              key |-> key, entity |-> Field(conn_str, "EntityPath")]
        ELSE [raised |-> "ParseError", host |-> None, policy |-> None,
              key |-> None, entity |-> None]

ServiceBusSharedKeyCredential(policy, key) ==
    <<"ServiceBusSharedKeyCredential", policy, key>>

-----------------------------------------------------------------------------
(* Configuration *)

Configuration(kwargs) ==
    [logging_enable |-> Get(kwargs, "logging_enable", FALSE),
     transport_type |-> Get(kwargs, "transport_type", "Amqp"),
     http_proxy     |-> Get(kwargs, "http_proxy", None),
     retry_total    |-> Get(kwargs, "retry_total", DefaultRetryTotal)]

-----------------------------------------------------------------------------
(* ServiceBusClient *)

\* AuthUri with the test "is not None" in place of truthiness
AuthUriNotNone(namespace, entity) ==
    IF entity /= None
    THEN (<<"sb://">> \o namespace) \o <<"/">> \o entity
    ELSE <<"sb://">> \o namespace

\* "sb://{}".format(namespace), then "{}/{}".format(uri, entity) for a truthy entity
AuthUri(namespace, entity) ==
    IF Truthy(entity)
    THEN (<<"sb://">> \o namespace) \o <<"/">> \o entity
    ELSE <<"sb://">> \o namespace

\* ConnectionSharingDefault with the flag left on
ConnectionSharingDefaultOn == TRUE

\* the value __init__ gives the internal connection sharing flag
ConnectionSharingDefault == FALSE

\* __init__(self, fully_qualified_namespace, credential, **kwargs)
ClientInit(namespace, cred, kwargs) ==
    /\ fully_qualified_namespace' = namespace
    /\ credential' = cred
    /\ config' = Configuration(kwargs)
    /\ connection' = NoConnection
    /\ entity_name' = Get(kwargs, "entity_name", None)
    /\ auth_uri' = AuthUri(namespace, Get(kwargs, "entity_name", None))
    /\ connection_sharing' = ConnectionSharingDefault

NoOp ==
    [op |-> "none", queue_name |-> None, kwargs |-> NoKwargs, exc |-> FALSE,
     result |-> None, raised |-> "none", conn_before |-> NoConnection,
     state_before |-> "none", destroy_called |-> FALSE]

ConnState(c) == IF c = NoConnection THEN "none" ELSE conns[c].state

\* an operation's history record: its name and the connection it found
Op(name) ==
    [NoOp EXCEPT !.op = name, !.conn_before = connection,
                 !.state_before = ConnState(connection)]

\* ServiceBusClient(fully_qualified_namespace, credential, **kwargs)
New(namespace, cred, kwargs) ==
    /\ phase = "new"
    /\ ClientInit(namespace, cred, kwargs)
    /\ phase' = "ready"
    /\ ctor' = [via |-> "__init__", namespace |-> namespace, credential |-> cred,
                kwargs |-> kwargs, valid |-> TRUE, policy |-> None, key |-> None,
                entity_path |-> None]
    /\ lastOp' = Op("__init__")
    /\ UNCHANGED <<conns, entered>>

\* FromConnectionStringArgs with the credential's policy and key exchanged
FromConnectionStringArgsSwapped(conn_str, kwargs) ==
    LET p == ParseConnStr(conn_str)
        taken == Truthy(p.entity)
        rest == IF taken THEN kwargs ELSE Without(kwargs, "entity_name")
    IN  IF p.raised /= "none"
        THEN [raised |-> p.raised, namespace |-> None, credential |-> None,
              kwargs |-> NoKwargs]
        ELSE IF "entity_name" \in DOMAIN rest
        THEN [raised |-> "TypeError", namespace |-> None, credential |-> None,
              kwargs |-> NoKwargs]
        ELSE [raised |-> "none", namespace |-> p.host,
              credential |-> ServiceBusSharedKeyCredential(p.key, p.policy),
              kwargs |-> With(rest, "entity_name",
                              IF taken THEN p.entity
                              ELSE Get(kwargs, "entity_name", None))]

\* the call cls(...) that from_connection_string makes, or the error raised before it:
\* in entity_in_conn_str or kwargs.pop("entity_name", None): the pop is evaluated only
\* when entity_in_conn_str is falsy, so otherwise **kwargs still holds entity_name
\* and the call passes the keyword twice
FromConnectionStringArgs(conn_str, kwargs) ==
    LET p == ParseConnStr(conn_str)
        taken == Truthy(p.entity)
        rest == IF taken THEN kwargs ELSE Without(kwargs, "entity_name")
    IN  IF p.raised /= "none"
        THEN [raised |-> p.raised, namespace |-> None, credential |-> None,
              kwargs |-> NoKwargs]
        ELSE IF "entity_name" \in DOMAIN rest
        THEN [raised |-> "TypeError", namespace |-> None, credential |-> None,
              kwargs |-> NoKwargs]
        ELSE [raised |-> "none", namespace |-> p.host,
              credential |-> ServiceBusSharedKeyCredential(p.policy, p.key),
              kwargs |-> With(rest, "entity_name",
                              IF taken THEN p.entity
                              ELSE Get(kwargs, "entity_name", None))]

\* ServiceBusClient.from_connection_string(conn_str, **kwargs)
FromConnectionString(conn_str, parts, kwargs) ==
    LET call == FromConnectionStringArgs(conn_str, kwargs)
    IN  /\ phase = "new"
        /\ IF call.raised = "none"
           THEN /\ ClientInit(call.namespace, call.credential, call.kwargs)
                /\ phase' = "ready"
           ELSE /\ phase' = "failed"
                /\ UNCHANGED clientVars
        /\ ctor' = [via |-> "from_connection_string", namespace |-> parts.host,
                    credential |-> None, kwargs |-> kwargs, valid |-> parts.valid,
                    policy |-> parts.policy, key |-> parts.key,
                    entity_path |-> parts.entity]
        /\ lastOp' = [Op("from_connection_string") EXCEPT !.raised = call.raised]
        /\ UNCHANGED <<conns, entered>>

\* create_authentication(self): the SASL/CBS auth for the client's URI and credential
CreateAuthentication == <<auth_uri, credential>>

\* _create_uamqp_connection(self)
CreateUamqpConnection ==
    /\ conns' = Append(conns, [hostname |-> fully_qualified_namespace,
                               sasl |-> CreateAuthentication,
                               debug |-> config.logging_enable,
                               state |-> "open", destroy_calls |-> 0])
    /\ connection' = Len(conns) + 1

\* __enter__(self)
Enter ==
    /\ phase = "ready"
    /\ entered < MaxDepth
    /\ connection_sharing => Len(conns) < MaxConns
    /\ IF connection_sharing
       THEN CreateUamqpConnection
       ELSE UNCHANGED <<conns, connection>>
    /\ entered' = entered + 1
    /\ lastOp' = Op("__enter__")
    /\ UNCHANGED <<phase, fully_qualified_namespace, credential, config, entity_name,
                   auth_uri, connection_sharing, ctor>>

\* CloseDestroys without the test of self._connection
CloseDestroysSharingOnly == connection_sharing

\* the condition of close(): self._connection_sharing and self._connection
CloseDestroys == connection_sharing /\ connection /= NoConnection

\* close() is taken only while the destroy() calls it adds stay within the bound
CloseWithinBound ==
    (CloseDestroys /\ connection /= NoConnection)
        => conns[connection].destroy_calls < MaxDestroyCalls

\* close(self), recorded under the name of the call that ran it
CloseBody(name, exc) ==
    IF CloseDestroys
    THEN IF connection = NoConnection
         THEN \* None.destroy()
              /\ lastOp' = [Op(name) EXCEPT !.exc = exc, !.raised = "AttributeError"]
              /\ UNCHANGED conns
         ELSE /\ conns' = [conns EXCEPT ![connection].state = "destroyed",
                                        ![connection].destroy_calls = @ + 1]
              /\ lastOp' = [Op(name) EXCEPT !.exc = exc, !.destroy_called = TRUE]
    ELSE /\ lastOp' = [Op(name) EXCEPT !.exc = exc]
         /\ UNCHANGED conns

\* close(self)
Close ==
    /\ phase = "ready"
    /\ CloseWithinBound
    /\ CloseBody("close", FALSE)
    /\ UNCHANGED <<phase, clientVars, entered, ctor>>

\* __exit__(self, *args): exc tells whether the block ended with an error
Exit(exc) ==
    /\ phase = "ready"
    /\ entered > 0
    /\ CloseWithinBound
    /\ CloseBody("__exit__", exc)
    /\ entered' = entered - 1
    /\ UNCHANGED <<phase, clientVars, ctor>>

\* the retry_total of a link: its own keyword, 3 when it has none
LinkRetryTotal(link) == Get(link.kwargs, "retry_total", DefaultRetryTotal)

\* the arguments get_queue_sender gives ServiceBusSender
SenderArgs(queue_name, kwargs) ==
    [kind |-> "ServiceBusSender",
     fully_qualified_namespace |-> fully_qualified_namespace,
     queue_name |-> queue_name,
     credential |-> credential,
     logging_enable |-> config.logging_enable,
     transport_type |-> config.transport_type,
     http_proxy |-> config.http_proxy,
     connection |-> connection,
     kwargs |-> kwargs]

\* the arguments get_queue_receiver gives ServiceBusReceiver
ReceiverArgs(queue_name, kwargs) ==
    [kind |-> "ServiceBusReceiver",
     fully_qualified_namespace |-> fully_qualified_namespace,
     queue_name |-> queue_name,
     credential |-> credential,
     logging_enable |-> config.logging_enable,
     transport_type |-> config.transport_type,
     http_proxy |-> config.http_proxy,
     connection |-> connection,
     kwargs |-> kwargs]

\* get_queue_sender(self, queue_name, **kwargs)
GetQueueSender(queue_name, kwargs) ==
    /\ phase = "ready"
    /\ lastOp' = [Op("get_queue_sender") EXCEPT !.queue_name = queue_name,
                     !.kwargs = kwargs, !.result = SenderArgs(queue_name, kwargs)]
    /\ UNCHANGED <<phase, clientVars, conns, entered, ctor>>

\* get_queue_receiver(self, queue_name, **kwargs)
GetQueueReceiver(queue_name, kwargs) ==
    /\ phase = "ready"
    /\ lastOp' = [Op("get_queue_receiver") EXCEPT !.queue_name = queue_name,
                     !.kwargs = kwargs, !.result = ReceiverArgs(queue_name, kwargs)]
    /\ UNCHANGED <<phase, clientVars, conns, entered, ctor>>

\* the internal flag switched on: client._connection_sharing = True
EnableConnectionSharing ==
    /\ phase = "ready"
    /\ ~connection_sharing
    /\ lastOp.op \in {"__init__", "from_connection_string"}
    /\ connection_sharing' = TRUE
    /\ lastOp' = Op("enable_connection_sharing")
    /\ UNCHANGED <<phase, fully_qualified_namespace, credential, config, connection,
                   entity_name, auth_uri, conns, entered, ctor>>

-----------------------------------------------------------------------------
(* Specifications *)

Init ==
    /\ phase = "new"
    /\ fully_qualified_namespace = None
    /\ credential = None
    /\ config = None
    /\ connection = NoConnection
    /\ entity_name = None
    /\ auth_uri = None
    /\ connection_sharing = FALSE
    /\ conns = <<>>
    /\ entered = 0
    /\ ctor = [via |-> "none", namespace |-> None, credential |-> None,
               kwargs |-> NoKwargs, valid |-> FALSE, policy |-> None, key |-> None,
               entity_path |-> None]
    /\ lastOp = NoOp

Construct ==
    \E ns \in Namespaces, cred \in TokenCredentials, kw \in ConfigKwargs, e \in EntityKw :
        New(ns, cred, WithEntity(kw, e))

ConstructFromConnectionString ==
    \E host \in Namespaces, policy \in Policies, key \in Keys, entity \in EntityPaths,
       kw \in ConfigKwargs, e \in EntityKw :
        FromConnectionString(
            ConnStr(host, policy, key, entity),
            [host |-> host, policy |-> policy, key |-> key, entity |-> entity,
             valid |-> TRUE],
            WithEntity(kw, e))

ConstructFromBadConnectionString ==
    \E host \in Namespaces, policy \in Policies, e \in EntityKw :
        FromConnectionString(
            ConnStrNoKey(host, policy),
            [host |-> host, policy |-> policy, key |-> None, entity |-> None,
             valid |-> FALSE],
            WithEntity(NoKwargs, e))

Sender == \E q \in QueueNames, kw \in LinkKwargs : GetQueueSender(q, kw)

Receiver == \E q \in QueueNames, kw \in LinkKwargs : GetQueueReceiver(q, kw)

ExitBlock == \E exc \in BOOLEAN : Exit(exc)

Next ==
    \/ Construct
    \/ ConstructFromConnectionString
    \/ ConstructFromBadConnectionString
    \/ Enter
    \/ ExitBlock
    \/ Close
    \/ Sender
    \/ Receiver

\* the client as shipped: connection sharing is off
Spec == Init /\ [][Next]_vars

NextSharing == Next \/ EnableConnectionSharing

\* the client with the internal connection sharing flag switched on after construction
SpecSharing == Init /\ [][NextSharing]_vars

-----------------------------------------------------------------------------
(* Claims *)

IsGet == lastOp.op \in {"get_queue_sender", "get_queue_receiver"}

IsClose == lastOp.op \in {"close", "__exit__"}

\* C1: from_connection_string with a valid string succeeds; with an EntityPath and an
\* entity_name keyword the client's entity name and the entity segment of its
\* authentication URI are the EntityPath; without an EntityPath the keyword is used.
C1_EntityPathWins ==
    (ctor.via = "from_connection_string" /\ ctor.valid) =>
        /\ (Truthy(ctor.entity_path) /\ "entity_name" \in DOMAIN ctor.kwargs) =>
              /\ phase = "ready"
              /\ entity_name = ctor.entity_path
              /\ auth_uri = (<<"sb://">> \o ctor.namespace) \o <<"/">> \o ctor.entity_path
        /\ ctor.entity_path = None =>
              /\ phase = "ready"
              /\ entity_name = Get(ctor.kwargs, "entity_name", None)

\* C2: close() raises nothing; the first close() after the shared connection was
\* created destroys it, and a close() that finds it destroyed does nothing to it.
C2_CloseIdempotent ==
    IsClose =>
        /\ lastOp.raised = "none"
        /\ lastOp.state_before = "open" =>
              lastOp.destroy_called /\ ConnState(lastOp.conn_before) = "destroyed"
        /\ lastOp.state_before = "destroyed" => ~lastOp.destroy_called

\* C3: __enter__ opens a shared connection exactly when sharing is enabled, __exit__
\* runs close() whether or not the block raised, and when the last block has been
\* left every connection created has been destroyed.
C3_ManagedBlockReleases ==
    /\ lastOp.op = "__enter__" =>
          IF connection_sharing
          THEN connection = Len(conns) /\ connection /= lastOp.conn_before
               /\ ConnState(connection) = "open"
          ELSE connection = lastOp.conn_before /\ conns = <<>>
    /\ lastOp.op = "__exit__" =>
          (lastOp.destroy_called <=>
              (connection_sharing /\ lastOp.conn_before /= NoConnection))
    /\ (lastOp.op = "__exit__" /\ entered = 0) =>
          \A i \in 1..Len(conns) : conns[i].state = "destroyed"

\* C4: the client's configuration is the one built at construction, and every link
\* the client creates has the client's transport type, proxy settings, retry policy
\* and logging flag (the retry policy is compared on the calls that pass no
\* retry_total of their own, where only the client's value can apply).
C4_ConfigurationPropagated ==
    /\ phase = "ready" => config = Configuration(ctor.kwargs)
    /\ IsGet =>
          /\ lastOp.result.transport_type = config.transport_type
          /\ lastOp.result.http_proxy = config.http_proxy
          /\ lastOp.result.logging_enable = config.logging_enable
          /\ "retry_total" \notin DOMAIN lastOp.kwargs =>
                LinkRetryTotal(lastOp.result) = config.retry_total

\* C5: on a client whose shared connection was never created, close() and __exit__
\* destroy nothing, raise nothing and leave every field of the client unchanged.
C5_CloseNeverOpenedIsNoOp ==
    [][(lastOp'.op \in {"close", "__exit__"} /\ conns = <<>>) =>
          /\ UNCHANGED <<fully_qualified_namespace, credential, config, entity_name,
                         auth_uri, connection, connection_sharing, conns>>
          /\ lastOp'.raised = "none"
          /\ ~lastOp'.destroy_called]_vars

\* C5 witness: close() was called with sharing on and no connection ever created
C5_Witness ==
    /\ lastOp.op = "close"
    /\ lastOp.conn_before = NoConnection
    /\ connection_sharing
    /\ conns = <<>>

\* C6: a client built by from_connection_string has the Endpoint's host as namespace
\* and the shared-key credential of the string's key name and key, and each link it
\* creates is bound to the queue asked for and carries that namespace and credential.
C6_ConnectionStringClient ==
    (ctor.via = "from_connection_string" /\ phase = "ready") =>
        /\ fully_qualified_namespace = ctor.namespace
        /\ credential = ServiceBusSharedKeyCredential(ctor.policy, ctor.key)
        /\ IsGet =>
              /\ lastOp.result.queue_name = lastOp.queue_name
              /\ lastOp.result.fully_qualified_namespace = ctor.namespace
              /\ lastOp.result.credential =
                     ServiceBusSharedKeyCredential(ctor.policy, ctor.key)
              /\ lastOp.result.kind =
                     (IF lastOp.op = "get_queue_sender"
                      THEN "ServiceBusSender" ELSE "ServiceBusReceiver")

\* C6 witness: the string carries EntityPath q1 and a sender for q1 was asked for
C6_Witness ==
    /\ ctor.via = "from_connection_string"
    /\ ctor.entity_path = <<"q1">>
    /\ lastOp.op = "get_queue_sender"
    /\ lastOp.queue_name = <<"q1">>
    /\ lastOp.result.queue_name = <<"q1">>

\* C7: the authentication URI is sb://<namespace> for no or an empty entity name and
\* sb://<namespace>/<entity_name> otherwise, and no operation after construction
\* changes it (nor the namespace and entity name it is derived from).
C7_AuthUri ==
    /\ [](phase = "ready" =>
            auth_uri = (IF entity_name = None \/ entity_name = <<>>
                        THEN <<"sb://">> \o fully_qualified_namespace
                        ELSE (<<"sb://">> \o fully_qualified_namespace)
                                 \o <<"/">> \o entity_name))
    /\ [][phase = "ready" =>
            UNCHANGED <<auth_uri, fully_qualified_namespace, entity_name>>]_vars

\* C7 witness: a client with the empty entity name, after a managed block was left
C7_Witness ==
    /\ phase = "ready"
    /\ entity_name = <<>>
    /\ auth_uri = <<"sb://">> \o fully_qualified_namespace
    /\ lastOp.op = "__exit__"

\* C9: the sharing flag keeps its construction value (disabled), the client holds no
\* connection, no connection is ever created, and every link is given no connection.
C9_PerLinkConnectionDefault ==
    /\ connection_sharing = FALSE
    /\ connection = NoConnection
    /\ conns = <<>>
    /\ IsGet => lastOp.result.connection = NoConnection

\* C9 witness: a link was created inside a managed block
C9_Witness ==
    /\ lastOp.op = "get_queue_receiver"
    /\ entered > 0
    /\ lastOp.result.connection = NoConnection

\* C10: no link is given a connection that has been destroyed.
C10_NoDestroyedConnectionHandedOut ==
    IsGet =>
        \/ lastOp.result.connection = NoConnection
        \/ ConnState(lastOp.result.connection) = "open"

====
